---- MODULE Spec2Model ----
(***************************************************************************)
(* Model of the image-transform dispatch layer: the five single-item       *)
(* operations of ImageProcessor (image_processor.py), batch_process, and   *)
(* the callers of the resize operation (api.py, example.py).               *)
(*                                                                         *)
(* File names and paths are sequences of one-character strings, so that    *)
(* lower(), endswith(), os.path.splitext and os.path.join are computed.    *)
(* Python floats are IEEE-754 doubles: a positive double is a record       *)
(* [m, e] standing for m * 2^e, with m a bit sequence (most significant    *)
(* bit first) of at most MantBits bits after rounding.                     *)
(***************************************************************************)
EXTENDS Integers, Sequences, FiniteSets, TLC

(***************************************************************************)
(* Bounds of the model.                                                    *)
(***************************************************************************)
MaxFiles == 2
MaxDim == 4
MaxTarget == 4
MaxCoord == 3

(***************************************************************************)
(* Strings.                                                                *)
(***************************************************************************)
\* an optional argument: None is the empty sequence, the value v is <<v>>;
\* an optional path is the path itself, None or '' being the empty sequence
None == <<>>
Some(v) == <<v>>

UpperChars == <<"A","B","C","D","E","F","G","H","I","J","K","L","M",
                "N","O","P","Q","R","S","T","U","V","W","X","Y","Z">>
LowerChars == <<"a","b","c","d","e","f","g","h","i","j","k","l","m",
                "n","o","p","q","r","s","t","u","v","w","x","y","z">>

LowerChar(c) ==
    IF \E i \in 1..Len(UpperChars) : UpperChars[i] = c
    THEN LowerChars[CHOOSE i \in 1..Len(UpperChars) : UpperChars[i] = c]
    ELSE c

\* str.lower()
lower(s) == [i \in 1..Len(s) |-> LowerChar(s[i])]

\* str.endswith(suffix)
endswith(s, suffix) ==
    /\ Len(suffix) <= Len(s)
    /\ SubSeq(s, Len(s) - Len(suffix) + 1, Len(s)) = suffix

\* str.rfind(c): the last index of c in s, 0 when absent (1-based)
rfind(s, c) ==
    IF \E i \in 1..Len(s) : s[i] = c
    THEN CHOOSE i \in 1..Len(s) : s[i] = c /\ \A j \in (i+1)..Len(s) : s[j] # c
    ELSE 0

\* os.path.splitext (posix): <<root, ext>>; the extension starts at the last
\* dot of the last path component, leading dots of the component excluded.
splitext(p) ==
    LET sepIndex == rfind(p, "/")
        dotIndex == rfind(p, ".")
    IN  IF /\ dotIndex > sepIndex
           /\ \E k \in (sepIndex+1)..(dotIndex-1) : p[k] # "."
        THEN <<SubSeq(p, 1, dotIndex - 1), SubSeq(p, dotIndex, Len(p))>>
        ELSE <<p, <<>> >>

\* os.path.join(dir, name) for a relative name and a directory without a
\* trailing separator
join(dir, name) == dir \o <<"/">> \o name

DotPng == <<".","p","n","g">>

(***************************************************************************)
(* IEEE-754 double arithmetic on positive values. Big naturals are bit     *)
(* sequences, most significant bit first; the integer operands (image      *)
(* dimensions) are below 2^LimbBits.                                       *)
(***************************************************************************)
MantBits == 53
DivShift == 75
LimbBits == 15
Limb == 2^LimbBits

\* the number of binary digits of n (0 for n = 0), n < 2^30
BitLen(n) == CHOOSE w \in 0..30 : n < 2^w /\ (w = 0 \/ n >= 2^(w - 1))

\* the binary digits of n, most significant first, on `width` digits
BitsW(n, width) == [j \in 1..width |-> (n \div 2^(width - j)) % 2]

\* the binary digits of n, most significant first; <<>> for 0
BitsOf(n) == BitsW(n, BitLen(n))

RECURSIVE IntOf(_)
\* the value of a bit sequence (of at most 30 digits)
IntOf(bits) ==
    IF bits = <<>> THEN 0
    ELSE 2 * IntOf(SubSeq(bits, 1, Len(bits) - 1)) + bits[Len(bits)]

\* bits without its leading zeros
StripZeros(bits) ==
    IF \E i \in 1..Len(bits) : bits[i] = 1
    THEN SubSeq(bits, CHOOSE i \in 1..Len(bits) :
                          bits[i] = 1 /\ \A j \in 1..(i - 1) : bits[j] = 0,
                Len(bits))
    ELSE <<>>

RECURSIVE PowLimbMod(_, _)
\* (2^LimbBits)^n mod b
PowLimbMod(n, b) ==
    IF n = 0 THEN 1 % b ELSE (PowLimbMod(n - 1, b) * (Limb % b)) % b

\* (a * 2^j) mod b, for a, b < 2^LimbBits
ShiftMod(a, j, b) ==
    ((a % b) * ((PowLimbMod(j \div LimbBits, b) * (2^(j % LimbBits) % b)) % b)) % b

\* the digits of floor(a * 2^DivShift / b): long division, digit j of the
\* fraction being floor(2 * ((a * 2^(j-1)) mod b) / b)
DivDigits(a, b) ==
    BitsOf(a \div b) \o [j \in 1..DivShift |-> (2 * ShiftMod(a, j - 1, b)) \div b]

\* limb number n (0 = least significant) of a bit sequence
LimbOf(bits, n) ==
    LET hi == Len(bits) - n * LimbBits
        lo == hi - LimbBits + 1
    IN  IF hi <= 0 THEN 0 ELSE IntOf(SubSeq(bits, IF lo < 1 THEN 1 ELSE lo, hi))

\* the digits of bits * k, for bits of at most 4 limbs and k < 2^LimbBits:
\* schoolbook multiplication, limb by limb with carry
MulSmall(bits, k) ==
    LET t0 == LimbOf(bits, 0) * k
        t1 == LimbOf(bits, 1) * k + t0 \div Limb
        t2 == LimbOf(bits, 2) * k + t1 \div Limb
        t3 == LimbOf(bits, 3) * k + t2 \div Limb
    IN  BitsOf(t3 \div Limb) \o BitsW(t3 % Limb, LimbBits)
          \o BitsW(t2 % Limb, LimbBits) \o BitsW(t1 % Limb, LimbBits)
          \o BitsW(t0 % Limb, LimbBits)

\* bits + 1
Incr(bits) ==
    IF \E i \in 1..Len(bits) : bits[i] = 0
    THEN LET z == CHOOSE i \in 1..Len(bits) :
                      bits[i] = 0 /\ \A j \in (i + 1)..Len(bits) : bits[j] = 1
         IN  [j \in 1..Len(bits) |-> IF j < z THEN bits[j] ELSE IF j = z THEN 1 ELSE 0]
    ELSE <<1>> \o [j \in 1..Len(bits) |-> 0]

\* the one element of a singleton set: { F(v) : v \in {e} } computes e once
TheOne(S) == CHOOSE r \in S : TRUE

\* round-to-nearest-even of the value bits * 2^e (plus a nonzero fraction
\* below the last digit when sticky) to MantBits significant digits
RoundNearestEven(bits, e, sticky) ==
    IF Len(bits) <= MantBits THEN [m |-> bits, e |-> e]
    ELSE LET keep == SubSeq(bits, 1, MantBits)
             guard == bits[MantBits + 1]
             below == sticky \/ \E i \in (MantBits + 2)..Len(bits) : bits[i] = 1
             up == guard = 1 /\ (below \/ keep[MantBits] = 1)
         IN  [m |-> IF up THEN TheOne({ Incr(k) : k \in {keep} }) ELSE keep,
              e |-> e + (Len(bits) - MantBits)]

\* a / float(b): the double nearest to a/b, for integers a, b > 0
FloatDiv(a, b) ==
    TheOne({ RoundNearestEven(StripZeros(d), 0 - DivShift, ShiftMod(a, DivShift, b) # 0) :
             d \in {DivDigits(a, b)} })

\* float(k) * x: the double nearest to k * x, for an integer k > 0
FloatMulInt(k, x) ==
    TheOne({ RoundNearestEven(StripZeros(p), x.e, FALSE) : p \in {MulSmall(x.m, k)} })

\* int(x): truncation toward zero of a positive double
IntTrunc(x) ==
    IF x.e >= 0 THEN IntOf(x.m \o [i \in 1..x.e |-> 0])
    ELSE IF Len(x.m) <= 0 - x.e THEN 0
    ELSE IntOf(SubSeq(x.m, 1, Len(x.m) + x.e))

(***************************************************************************)
(* Inputs: file names, paths, image sizes, resize targets, corner lists.   *)
(***************************************************************************)
input_dir == <<"i","n">>
output_dir == <<"o","u","t">>

\* ImageProcessor.supported_formats
supported_formats ==
    << <<".","j","p","g">>, <<".","j","p","e","g">>, <<".","p","n","g">>,
       <<".","b","m","p">>, <<".","t","i","f","f">> >>

\* the entries a source directory may hold
NamePool ==
    { <<"a",".","j","p","g">>, <<"a",".","P","N","G">>, <<"b",".","J","p","e","g">>,
      <<"c",".","d",".","t","i","f","f">>, <<"e",".","b","m","p">>,
      <<".","p","n","g">>, <<"n","o","t","e","s",".","t","x","t">> }

\* the output paths a direct caller may ask for
OutputPaths ==
    { join(output_dir, <<"x",".","j","p","g">>), join(output_dir, <<"x",".","p","n","g">>),
      join(output_dir, <<"x">>), join(<<"o",".","d">>, <<"x">>),
      join(output_dir, <<".","j","p","g">>) }

ResizeOutput == join(output_dir, <<"x",".","j","p","g">>)
InputPath == join(input_dir, <<"a",".","j","p","g">>)
MaskPath == join(input_dir, <<"m",".","p","n","g">>)

\* the directory listings os.listdir may return: distinct names, any order
RECURSIVE Listings(_)
Listings(n) ==
    IF n = 0 THEN { <<>> }
    ELSE LET shorter == Listings(n - 1)
         IN  shorter \cup
             { Append(l, f) : l \in { q \in shorter : Len(q) = n - 1 },
                              f \in NamePool }
SourceListings ==
    { l \in Listings(MaxFiles) : \A i, j \in 1..Len(l) : i # j => l[i] # l[j] }

\* sizes (width, height) of the decoded input image
ImageSizes ==
    ((1..MaxDim) \X (1..MaxDim))
        \cup { <<800, 600>>, <<400, 400>>, <<3, 15>>, <<15, 3>>, <<49, 49>> }
DefaultSize == <<4, 3>>

\* the values a caller passes for new_width and new_height
Targets == {None} \cup { Some(v) : v \in (0..MaxTarget) \cup {49, 400} }

Square(k) == << <<0, 0>>, <<k, 0>>, <<k, k>>, <<0, k>> >>
Points == (0..MaxCoord) \X (0..MaxCoord)
\* the corner lists a caller passes: every list of four points of the small
\* grid that starts at the origin (the edge lengths do not change under
\* translation), the rectangles of the documented scenarios, lists of 3 and
\* of 5 points
CornerLists ==
    ({<<0, 0>>} \X Points \X Points \X Points)
        \cup { Square(k) : k \in {7, 100} }
        \cup { << <<0, 0>>, <<100, 0>>, <<100, 50>>, <<0, 50>> >>,
               << <<0, 0>>, <<2, 0>>, <<2, 2>> >>,
               << <<0, 0>>, <<2, 0>>, <<2, 2>>, <<0, 2>>, <<1, 1>> >> }

\* what the environment does to one call: nothing ("ok"), or the one fault
\* it injects: the input does not decode, the mask does not decode or fit,
\* the transform capability raises, the write raises, or the write fails
\* without raising (cv2.imwrite returns False)
PilEnvs == {"ok", "decode", "capability", "write_raise"}
CvEnvs == PilEnvs \cup {"write_false"}

(***************************************************************************)
(* The single-item operations. Each yields the call's outcome: the return  *)
(* value, the resolved output path, whether the output file was written,   *)
(* the size of the written raster, whether a resize took place.            *)
(***************************************************************************)
Outcome(ret, out, wrote, size, resized, fault) ==
    [ret |-> ret, out |-> out, wrote |-> wrote, size |-> size,
     resized |-> resized, fault |-> fault]

\* the except branch: the exception is printed and False returned; fault
\* names what raised
Failed(out, fault) == Outcome(FALSE, out, FALSE, <<0, 0>>, FALSE, fault)

\* PIL chooses the encoder by os.path.splitext(path)[1].lower(); none: the
\* save raises
Encodable(path) ==
    \E k \in 1..Len(supported_formats) : lower(splitext(path)[2]) = supported_formats[k]

\* cv2.imwrite chooses the encoder by the letters and digits that follow the
\* last dot of the whole path; none: imwrite raises
CvExtension(path) ==
    LET dot == rfind(path, ".")
        stop == IF \E i \in (dot + 1)..Len(path) : path[i] \in {"/", "_", "."}
                THEN CHOOSE i \in (dot + 1)..Len(path) :
                        /\ path[i] \in {"/", "_", "."}
                        /\ \A j \in (dot + 1)..(i - 1) : path[j] \notin {"/", "_", "."}
                ELSE Len(path) + 1
    IN  IF dot = 0 THEN <<>> ELSE SubSeq(path, dot, stop - 1)
CvEncodable(path) ==
    \E k \in 1..Len(supported_formats) : lower(CvExtension(path)) = supported_formats[k]

\* img.save(output_path) of PIL: raises or writes
PilSave(env, out, size, resized) ==
    IF Encodable(out) /\ env # "write_raise"
    THEN Outcome(TRUE, out, TRUE, size, resized, "none")
    ELSE Failed(out, "write")

\* cv2.imwrite(output_path, img) followed by return True: the return value
\* of imwrite is not looked at
CvWrite(env, out, size) ==
    IF ~CvEncodable(out) \/ env = "write_raise" THEN Failed(out, "write")
    ELSE IF env # "write_false" THEN Outcome(TRUE, out, TRUE, size, FALSE, "none")
    ELSE Outcome(TRUE, out, FALSE, <<0, 0>>, FALSE, "write")

\* remove_background without the normalisation of the output path
remove_background_as_asked(env, orig, output_path) ==
    IF env = "decode" THEN Failed(output_path, "decode")
    ELSE IF env = "capability" THEN Failed(output_path, "capability")
    ELSE IF env = "write_raise" THEN Failed(output_path, "write")
    ELSE Outcome(TRUE, output_path, TRUE, orig, FALSE, "none")

remove_background(env, orig, output_path) ==
    LET out == splitext(output_path)[1] \o DotPng
    IN  IF env = "decode" THEN Failed(out, "decode")
        ELSE IF env = "capability" THEN Failed(out, "capability")
        ELSE IF env = "write_raise" THEN Failed(out, "write")
        ELSE Outcome(TRUE, out, TRUE, orig, FALSE, "none")

enhance_quality(env, orig, output_path) ==
    IF env = "decode" THEN Failed(output_path, "decode")
    ELSE IF env = "capability" THEN Failed(output_path, "capability")
    ELSE CvWrite(env, output_path, orig)

\* Python truth value of an optional integer
Truthy(v) == v # None /\ v[1] # 0

\* the dimension computed from the given one: int(float(other) * ratio)
\* with ratio = given / float(original)
\* the computed dimension, were it rounded to the nearest integer
ScaledDimRounded(given, original, other) ==
    (2 * other * given + original) \div (2 * original)

ScaledDim(given, original, other) ==
    TheOne({ IntTrunc(product) :
             product \in { FloatMulInt(other, ratio) :
                           ratio \in {FloatDiv(given, original)} } })

\* the size asked of Image.resize, the original size when no branch is taken
TargetSize(orig, new_width, new_height) ==
    IF Truthy(new_width) /\ Truthy(new_height)
    THEN <<new_width[1], new_height[1]>>
    ELSE IF Truthy(new_width)
    THEN <<new_width[1], ScaledDim(new_width[1], orig[1], orig[2])>>
    ELSE IF Truthy(new_height)
    THEN <<ScaledDim(new_height[1], orig[2], orig[1]), new_height[1]>>
    ELSE orig

Resized(env, output_path, size, resized) ==
    IF resized /\ (size[1] < 1 \/ size[2] < 1)
    THEN Failed(output_path, "params")
    ELSE IF resized /\ env = "capability" THEN Failed(output_path, "capability")
    ELSE PilSave(env, output_path, size, resized)

resize_without_distortion(env, orig, output_path, new_width, new_height) ==
    IF env = "decode" THEN Failed(output_path, "decode")
    ELSE TheOne({ Resized(env, output_path, size, Truthy(new_width) \/ Truthy(new_height)) :
                  size \in {TargetSize(orig, new_width, new_height)} })

remove_unwanted_objects(env, orig, output_path, mask_path) ==
    IF env = "decode" THEN Failed(output_path, "decode")
    ELSE IF mask_path # None /\ env = "mask" THEN Failed(output_path, "capability")
    ELSE IF env = "capability" THEN Failed(output_path, "capability")
    ELSE CvWrite(env, output_path, orig)

Dist2(p, q) == (p[1] - q[1]) * (p[1] - q[1]) + (p[2] - q[2]) * (p[2] - q[2])
Max(a, b) == IF a >= b THEN a ELSE b

\* int(width) of the np.float32 norm whose square is n: the integer part
\* of the square root
\* round(width) in place of int(width)
RoundedSqrt(n) ==
    CHOOSE k \in 0..(n + 1) :
        /\ k = 0 \/ (2 * k - 1) * (2 * k - 1) <= 4 * n
        /\ 4 * n <= (2 * k + 1) * (2 * k + 1)

IntSqrt(n) == CHOOSE k \in 0..n : k * k <= n /\ n < (k + 1) * (k + 1)

fix_perspective(env, orig, output_path, corners) ==
    IF Len(corners) < 4 THEN Failed(output_path, "params")
    ELSE LET width == IntSqrt(Max(Dist2(corners[1], corners[2]),
                                  Dist2(corners[3], corners[4])))
             height == IntSqrt(Max(Dist2(corners[1], corners[4]),
                                   Dist2(corners[2], corners[3])))
         IN  IF Len(corners) # 4 THEN Failed(output_path, "params")
             ELSE IF env = "decode" THEN Failed(output_path, "decode")
             ELSE IF env = "capability" THEN Failed(output_path, "capability")
             ELSE CvWrite(env, output_path,
                          IF width < 1 \/ height < 1 THEN orig ELSE <<width, height>>)

(***************************************************************************)
(* State.                                                                  *)
(***************************************************************************)
VARIABLES
    pc,           \* "idle", "batch" (inside the loop of batch_process), "done"
    entry,        \* the entry point that ran: "none", "direct", "http", "cli", "batch"
    calls,        \* the single-item calls whose body ran, in order
    listing,      \* what os.listdir(input_dir) returned
    files,        \* the retained files of the listing
    idx,          \* the number of files the loop has gone through
    process_type, \* batch_process's process_type
    kwargs,       \* batch_process's **kwargs
    batch_ret,    \* what batch_process returned: "none", "true", "false"
    batch_exc,    \* the exception batch_process caught: "none", "makedirs",
                  \* "listdir", "TypeError"
    http_status   \* the status of the HTTP response, 0 before any

vars == <<pc, entry, calls, listing, files, idx, process_type, kwargs,
          batch_ret, batch_exc, http_status>>

batch_vars == <<listing, files, idx, process_type, kwargs, batch_ret, batch_exc>>

\* the record of one call: its arguments and its outcome
Call(op, input, req, nw, nh, mask, corners, orig, r) ==
    [op |-> op, input |-> input, req |-> req, nw |-> nw, nh |-> nh,
     mask |-> mask, corners |-> corners, orig |-> orig,
     ret |-> r.ret, out |-> r.out, wrote |-> r.wrote, size |-> r.size,
     resized |-> r.resized, fault |-> r.fault]

Init ==
    /\ pc = "idle"
    /\ entry = "none"
    /\ calls = <<>>
    /\ listing = <<>>
    /\ files = <<>>
    /\ idx = 0
    /\ process_type = "none"
    /\ kwargs = {}
    /\ batch_ret = "none"
    /\ batch_exc = "none"
    /\ http_status = 0

(***************************************************************************)
(* Direct calls of the five operations by a client of ImageProcessor.      *)
(***************************************************************************)
Direct(rec) ==
    /\ pc = "idle"
    /\ pc' = "done"
    /\ entry' = "direct"
    /\ calls' = <<rec>>
    /\ UNCHANGED <<batch_vars, http_status>>

Call_remove_background ==
    /\ pc = "idle"
    /\ \E env \in PilEnvs, out \in OutputPaths :
        \E r \in {remove_background(env, DefaultSize, out)} :
            Direct(Call("remove_background", InputPath, out, None, None, None, <<>>,
                        DefaultSize, r))

Call_enhance_quality ==
    /\ pc = "idle"
    /\ \E env \in CvEnvs, out \in OutputPaths :
        \E r \in {enhance_quality(env, DefaultSize, out)} :
            Direct(Call("enhance_quality", InputPath, out, None, None, None, <<>>,
                        DefaultSize, r))

Call_resize_without_distortion ==
    /\ pc = "idle"
    /\ \E env \in PilEnvs, orig \in ImageSizes, nw \in Targets, nh \in Targets :
        \E r \in {resize_without_distortion(env, orig, ResizeOutput, nw, nh)} :
            Direct(Call("resize", InputPath, ResizeOutput, nw, nh, None, <<>>, orig, r))

Call_remove_unwanted_objects ==
    /\ pc = "idle"
    /\ \E env \in CvEnvs \cup {"mask"}, out \in OutputPaths, mask \in {None, MaskPath} :
        \E r \in {remove_unwanted_objects(env, DefaultSize, out, mask)} :
            Direct(Call("remove_objects", InputPath, out, None, None, mask, <<>>,
                        DefaultSize, r))

Call_fix_perspective ==
    /\ pc = "idle"
    /\ \E env \in CvEnvs, corners \in CornerLists :
        \E r \in {fix_perspective(env, DefaultSize, ResizeOutput, corners)} :
            Direct(Call("fix_perspective", InputPath, ResizeOutput, None, None, None,
                        corners, DefaultSize, r))

(***************************************************************************)
(* The callers of the resize operation: the HTTP endpoint and the CLI.     *)
(***************************************************************************)
TEMP_DIR == <<"t","e","m","p","_","i","m","a","g","e","s">>
\* the ids of SAMPLE_IMAGES
SampleIds == {1, 2, 3}
\* the photo ids a request may name
PhotoIds == 1..4
Digit == <<"1","2","3","4","5","6","7","8","9">>

\* GET /process/{photo_id}/resize
resize_image ==
    /\ pc = "idle"
    /\ \E photo_id \in PhotoIds, width \in Targets, height \in Targets,
          fetched \in BOOLEAN, env \in PilEnvs :
        LET temp_input == join(TEMP_DIR, <<"i","n","p","u","t","_", Digit[photo_id],
                                           ".","j","p","g">>)
            temp_output == join(TEMP_DIR, <<"r","e","s","i","z","e","d","_",
                                            Digit[photo_id], ".","j","p","g">>)
        IN  IF width = None /\ height = None
            THEN /\ http_status' = 400
                 /\ calls' = calls
            ELSE IF photo_id \notin SampleIds \/ ~fetched
            THEN /\ http_status' = 404
                 /\ calls' = calls
            ELSE \E r \in {resize_without_distortion(env, DefaultSize, temp_output,
                                                     width, height)} :
                    /\ http_status' = IF r.ret THEN 200 ELSE 500
                    /\ calls' = <<Call("resize", temp_input, temp_output, width, height,
                                       None, <<>>, DefaultSize, r)>>
    /\ pc' = "done"
    /\ entry' = "http"
    /\ UNCHANGED batch_vars

\* the integers typed at the prompts of choice 3
CliNumbers == (0 - 1)..MaxTarget

\* choice 3 of main(): a dimension that is not positive is passed as None,
\* the result of the call is not looked at
main_resize ==
    /\ pc = "idle"
    /\ \E width \in CliNumbers, height \in CliNumbers, env \in PilEnvs :
        LET output_path == join(output_dir, <<"r","e","s","i","z","e","d","_",
                                              "a",".","j","p","g">>)
            new_width == IF width > 0 THEN Some(width) ELSE None
            new_height == IF height > 0 THEN Some(height) ELSE None
        IN  \E r \in {resize_without_distortion(env, DefaultSize, output_path,
                                                new_width, new_height)} :
                calls' = <<Call("resize", InputPath, output_path, new_width, new_height,
                                None, <<>>, DefaultSize, r)>>
    /\ pc' = "done"
    /\ entry' = "cli"
    /\ UNCHANGED <<batch_vars, http_status>>

(***************************************************************************)
(* batch_process.                                                          *)
(***************************************************************************)
ProcessTypes == {"remove_background", "enhance_quality", "resize",
                 "remove_objects", "fix_perspective"}

\* **kwargs: a set of <<name, value>> pairs
Keys(kw) == { p[1] : p \in kw }
Get(kw, name, default) ==
    IF name \in Keys(kw) THEN (CHOOSE p \in kw : p[1] = name)[2] ELSE default

\* the keyword arguments a caller of batch_process passes
KwargSets ==
    { {},
      { <<"new_width", Some(2)>> },
      { <<"new_height", Some(2)>> },
      { <<"new_width", Some(2)>>, <<"new_height", Some(3)>> },
      { <<"mask_path", MaskPath>> },
      { <<"corners", Square(2)>> },
      { <<"corners", << <<0, 0>>, <<2, 0>>, <<2, 2>> >> >> } }

\* any(f.lower().endswith(ext) for ext in self.supported_formats)
Supported(f) ==
    \E k \in 1..Len(supported_formats) : endswith(lower(f), supported_formats[k])

RECURSIVE Retained(_)
\* [f for f in listing if Supported(f)]
Retained(l) ==
    IF l = <<>> THEN <<>>
    ELSE IF Supported(Head(l)) THEN <<Head(l)>> \o Retained(Tail(l))
    ELSE Retained(Tail(l))

\* the output name, were .png forced for every kind
OutputNameAlwaysPng(ptype, file) == splitext(file)[1] \o DotPng

\* the output name of a file of the batch
OutputName(ptype, file) ==
    IF ptype = "remove_background" THEN splitext(file)[1] \o DotPng ELSE file

\* the start of batch_process: the destination directory is created when
\* absent, the source directory listed and filtered; an exception of
\* makedirs or listdir is caught by the except branch, which returns False
BatchBegin(who, ptype, kw) ==
    /\ pc = "idle"
    /\ entry' = who
    /\ process_type' = ptype
    /\ kwargs' = kw
    /\ calls' = calls
    /\ idx' = 0
    /\ http_status' = http_status
    /\ \E exists \in BOOLEAN, dirfault \in {"none", "makedirs", "listdir"},
          l \in SourceListings :
        IF ~exists /\ dirfault = "makedirs"
        THEN /\ batch_exc' = "makedirs"
             /\ batch_ret' = "false"
             /\ pc' = "done"
             /\ listing' = <<>>
             /\ files' = <<>>
        ELSE IF dirfault = "listdir"
        THEN /\ batch_exc' = "listdir"
             /\ batch_ret' = "false"
             /\ pc' = "done"
             /\ listing' = <<>>
             /\ files' = <<>>
        ELSE /\ batch_exc' = "none"
             /\ batch_ret' = "none"
             /\ pc' = "batch"
             /\ listing' = l
             /\ files' = Retained(l)

\* batch_process called by a client, with any process type and keywords
batch_process ==
    \E ptype \in ProcessTypes \cup {"sharpen"}, kw \in KwargSets :
        BatchBegin("batch", ptype, kw)

\* choice 6 of main(): a type of process_map, no keyword argument
main_batch ==
    \E ptype \in ProcessTypes : BatchBegin("cli", ptype, {})

\* whether the call f(input_path, output_path, **kwargs) binds: no unknown
\* keyword, no missing required argument (otherwise a TypeError is raised
\* in batch_process, before the body of f runs)
Binds(ptype, kw) ==
    CASE ptype = "resize" -> Keys(kw) \subseteq {"new_width", "new_height"}
      [] ptype = "remove_objects" -> Keys(kw) \subseteq {"mask_path"}
      [] ptype = "fix_perspective" -> Keys(kw) = {"corners"}
      [] OTHER -> TRUE

\* the call of the single-item operation for one file of the batch
Dispatch(ptype, kw, env, input_path, output_path) ==
    CASE ptype = "remove_background" ->
            Call(ptype, input_path, output_path, None, None, None, <<>>, DefaultSize,
                 remove_background(env, DefaultSize, output_path))
      [] ptype = "enhance_quality" ->
            Call(ptype, input_path, output_path, None, None, None, <<>>, DefaultSize,
                 enhance_quality(env, DefaultSize, output_path))
      [] ptype = "resize" ->
            Call(ptype, input_path, output_path,
                 Get(kw, "new_width", None), Get(kw, "new_height", None),
                 None, <<>>, DefaultSize,
                 resize_without_distortion(env, DefaultSize, output_path,
                                           Get(kw, "new_width", None),
                                           Get(kw, "new_height", None)))
      [] ptype = "remove_objects" ->
            Call(ptype, input_path, output_path, None, None,
                 Get(kw, "mask_path", None), <<>>, DefaultSize,
                 remove_unwanted_objects(env, DefaultSize, output_path,
                                         Get(kw, "mask_path", None)))
      [] ptype = "fix_perspective" ->
            Call(ptype, input_path, output_path, None, None, None,
                 Get(kw, "corners", <<>>), DefaultSize,
                 fix_perspective(env, DefaultSize, output_path,
                                 Get(kw, "corners", <<>>)))

\* the faults the environment may inject into a call of the operation
EnvsOf(ptype) ==
    CASE ptype \in {"remove_background", "resize"} -> PilEnvs
      [] ptype = "remove_objects" -> CvEnvs \cup {"mask"}
      [] OTHER -> CvEnvs

\* one iteration of the loop over the retained files
BatchItem ==
    /\ pc = "batch"
    /\ idx < Len(files)
    /\ LET file == files[idx + 1]
           input_path == join(input_dir, file)
           output_path == join(output_dir, OutputName(process_type, file))
       IN  IF process_type \notin ProcessTypes
           THEN /\ idx' = idx + 1
                /\ UNCHANGED <<pc, calls, batch_ret, batch_exc>>
           ELSE IF ~Binds(process_type, kwargs)
           THEN /\ batch_exc' = "TypeError"
                /\ batch_ret' = "false"
                /\ pc' = "done"
                /\ UNCHANGED <<idx, calls>>
           ELSE \E env \in EnvsOf(process_type) :
                \E c \in {Dispatch(process_type, kwargs, env, input_path, output_path)} :
                    /\ calls' = Append(calls, c)
                    /\ idx' = idx + 1
                    /\ UNCHANGED <<pc, batch_ret, batch_exc>>
    /\ UNCHANGED <<entry, listing, files, process_type, kwargs, http_status>>

\* the end of the loop: return True
BatchReturn ==
    /\ pc = "batch"
    /\ idx = Len(files)
    /\ batch_ret' = "true"
    /\ pc' = "done"
    /\ UNCHANGED <<entry, calls, listing, files, idx, process_type, kwargs,
                   batch_exc, http_status>>

Next ==
    \/ Call_remove_background
    \/ Call_enhance_quality
    \/ Call_resize_without_distortion
    \/ Call_remove_unwanted_objects
    \/ Call_fix_perspective
    \/ resize_image
    \/ main_resize
    \/ batch_process
    \/ main_batch
    \/ BatchItem
    \/ BatchReturn

Spec == Init /\ [][Next]_vars

(***************************************************************************)
(* Properties.                                                             *)
(***************************************************************************)
\* the run is a batch whose directories could be created and listed
InBatch == process_type # "none" /\ batch_exc \notin {"makedirs", "listdir"}
BatchDone == InBatch /\ pc = "done"

\* the number of calls made for the file f of the source directory
CallsFor(f) == Cardinality({ i \in 1..Len(calls) : calls[i].input = join(input_dir, f) })

\* os.path.splitext(f)[1].lower() in supported_formats
HasSupportedExtension(f) ==
    \E k \in 1..Len(supported_formats) : lower(splitext(f)[2]) = supported_formats[k]

\* C1: when a batch over one of the five operation kinds is over, whatever
\* keyword arguments were passed, every retained file of the source
\* directory has been handed to the single-item operation.
C1_EveryRetainedFileProcessed ==
    (BatchDone /\ process_type \in ProcessTypes)
        => \A i \in 1..Len(files) : CallsFor(files[i]) >= 1

\* C2: when a batch over one of the five operation kinds is over, the
\* single-item operation has been called exactly once for each entry of the
\* source directory whose extension, lower-cased, is a supported format, and
\* never for any other entry.
C2_ExactlyTheSupportedFiles ==
    (BatchDone /\ process_type \in ProcessTypes)
        => \A i \in 1..Len(listing) :
              CallsFor(listing[i]) = IF HasSupportedExtension(listing[i]) THEN 1 ELSE 0

\* C3: batch_process returns False only if creating the destination
\* directory or listing the source directory failed; every other run returns
\* True, whatever the items did and whatever keyword arguments were passed.
C3_FalseOnlyOnDirectoryFailure ==
    (process_type # "none" /\ pc = "done")
        => (batch_ret = "false" <=> batch_exc \in {"makedirs", "listdir"})

\* C4: every call of a single-item operation in which an error arose (decode,
\* capability, parameters, write) returned False, and no exception of a call
\* reached batch_process.
C4_EveryErrorBecomesFalse ==
    /\ \A i \in 1..Len(calls) : calls[i].fault # "none" => calls[i].ret = FALSE
    /\ batch_exc # "TypeError"

\* C5: every single-item call that returned True has written its output file
\* at the resolved output path.
C5_SuccessMeansWritten ==
    \A i \in 1..Len(calls) : calls[i].ret => calls[i].wrote

\* C6: every call of remove_background, direct or from a batch, resolves its
\* output to a path ending in .png; a batch of any other kind resolves the
\* output of a file to the destination directory joined with the unchanged
\* file name.
C6_PngForcedForBackgroundRemoval ==
    \A i \in 1..Len(calls) :
        /\ calls[i].op = "remove_background" => endswith(calls[i].out, DotPng)
        /\ (InBatch /\ calls[i].op # "remove_background")
              => calls[i].out = join(output_dir, files[i])

\* C6 witness: a call of remove_background asked for an output path that does
\* not end in .png and wrote its output.
C6_Witness ==
    \E i \in 1..Len(calls) :
        /\ calls[i].op = "remove_background"
        /\ calls[i].wrote
        /\ ~endswith(calls[i].req, DotPng)

\* a resize call that succeeded with only the width, only the height given
OnlyWidth(c) == c.op = "resize" /\ c.ret /\ Truthy(c.nw) /\ ~Truthy(c.nh)
OnlyHeight(c) == c.op = "resize" /\ c.ret /\ ~Truthy(c.nw) /\ Truthy(c.nh)

Abs(x) == IF x < 0 THEN 0 - x ELSE x
\* r is an integer nearest to n / d
IsNearest(r, n, d) == 2 * Abs(r * d - n) <= d
\* r is n / d truncated toward zero, or one less than an integral n / d (the
\* double-precision product of an integral quotient can fall just below it)
IsTruncated(r, n, d) ==
    \/ r * d <= n /\ n < (r + 1) * d
    \/ n = (r + 1) * d

\* C7 as claimed: with only the width given the output height is
\* originalHeight * width / originalWidth rounded to the nearest integer, and
\* symmetrically with only the height given.
C7_RoundedToNearest ==
    \A i \in 1..Len(calls) :
        /\ OnlyWidth(calls[i])
              => IsNearest(calls[i].size[2], calls[i].orig[2] * calls[i].nw[1],
                           calls[i].orig[1])
        /\ OnlyHeight(calls[i])
              => IsNearest(calls[i].size[1], calls[i].orig[1] * calls[i].nh[1],
                           calls[i].orig[2])

\* C7 amended: with only the width given the output width is the one given
\* and the output height is originalHeight * width / originalWidth truncated
\* toward zero (one less when the double-precision product of an integral
\* quotient falls just below it), and symmetrically with only the height.
C7_TruncatedTowardZero ==
    \A i \in 1..Len(calls) :
        /\ OnlyWidth(calls[i])
              => /\ calls[i].size[1] = calls[i].nw[1]
                 /\ IsTruncated(calls[i].size[2], calls[i].orig[2] * calls[i].nw[1],
                                calls[i].orig[1])
        /\ OnlyHeight(calls[i])
              => /\ calls[i].size[2] = calls[i].nh[1]
                 /\ IsTruncated(calls[i].size[1], calls[i].orig[1] * calls[i].nh[1],
                                calls[i].orig[2])

\* C7 witness: a resize with only the width given succeeded with a height
\* that is not the nearest integer.
C7_Witness ==
    \E i \in 1..Len(calls) :
        /\ OnlyWidth(calls[i])
        /\ ~IsNearest(calls[i].size[2], calls[i].orig[2] * calls[i].nw[1],
                      calls[i].orig[1])

\* C8: no caller (HTTP endpoint, CLI, batch) calls resize with both width and
\* height absent, and no resize call of a caller reports success without
\* having resized.
C8_ResizeAlwaysGivenADimension ==
    entry \in {"http", "cli", "batch"}
        => \A i \in 1..Len(calls) :
              calls[i].op = "resize"
                 => /\ ~(calls[i].nw = None /\ calls[i].nh = None)
                    /\ calls[i].ret => calls[i].resized

\* the squares of the width and of the height of the target rectangle
Width2(c) == Max(Dist2(c.corners[1], c.corners[2]), Dist2(c.corners[3], c.corners[4]))
Height2(c) == Max(Dist2(c.corners[1], c.corners[4]), Dist2(c.corners[2], c.corners[3]))
\* a call of fix_perspective with four corners that wrote its output
Rectified(c) == c.op = "fix_perspective" /\ c.wrote /\ Len(c.corners) = 4

\* k is an integer nearest to the square root of n
IsNearestRoot(k, n) ==
    /\ k = 0 \/ (2 * k - 1) * (2 * k - 1) <= 4 * n
    /\ 4 * n <= (2 * k + 1) * (2 * k + 1)
\* k is the square root of n truncated toward zero
IsTruncatedRoot(k, n) == k * k <= n /\ n < (k + 1) * (k + 1)

Rect100x50 == << <<0, 0>>, <<100, 0>>, <<100, 50>>, <<0, 50>> >>

\* the turn made at q on the way from p to r (positive: clockwise on the
\* image, whose y axis points down)
Turn(p, q, r) == (q[1] - p[1]) * (r[2] - q[2]) - (q[2] - p[2]) * (r[1] - q[1])
\* the corners are those of a convex quadrilateral, in the order top-left,
\* top-right, bottom-right, bottom-left
Convex(c) ==
    /\ Turn(c[1], c[2], c[3]) > 0
    /\ Turn(c[2], c[3], c[4]) > 0
    /\ Turn(c[3], c[4], c[1]) > 0
    /\ Turn(c[4], c[1], c[2]) > 0

\* C9 as claimed: the canvas of fix_perspective, given the four corners of a
\* convex quadrilateral, is (round(width), round(height)).
C9_CanvasRounded ==
    \A i \in 1..Len(calls) :
        (Rectified(calls[i]) /\ Convex(calls[i].corners))
            => /\ IsNearestRoot(calls[i].size[1], Width2(calls[i]))
               /\ IsNearestRoot(calls[i].size[2], Height2(calls[i]))

\* C9 amended: the canvas of fix_perspective is (int(width), int(height)),
\* truncated toward zero, when both are at least 1; a k by k square gives
\* k by k, the 100 by 50 rectangle 100 by 50.
C9_CanvasTruncated ==
    \A i \in 1..Len(calls) :
        (Rectified(calls[i]) /\ Width2(calls[i]) >= 1 /\ Height2(calls[i]) >= 1)
            => /\ IsTruncatedRoot(calls[i].size[1], Width2(calls[i]))
               /\ IsTruncatedRoot(calls[i].size[2], Height2(calls[i]))
               /\ \A k \in 1..100 : calls[i].corners = Square(k) => calls[i].size = <<k, k>>
               /\ calls[i].corners = Rect100x50 => calls[i].size = <<100, 50>>

\* C9 witness: fix_perspective, given the corners of a convex quadrilateral,
\* wrote a canvas lower than the rounded height of the target rectangle.
C9_Witness ==
    \E i \in 1..Len(calls) :
        /\ Rectified(calls[i])
        /\ Convex(calls[i].corners)
        /\ ~IsNearestRoot(calls[i].size[2], Height2(calls[i]))
        /\ IsTruncatedRoot(calls[i].size[2], Height2(calls[i]))

\* C10 as claimed: in a batch, two distinct files never resolve to the same
\* output path.
C10_DistinctOutputs ==
    InBatch => \A i, j \in 1..Len(calls) : i # j => calls[i].out # calls[j].out

\* C10 amended: in a batch, two distinct files resolve to the same output
\* path exactly when the kind is remove_background and the two names differ
\* only in their extension.
C10_DistinctUnlessSameStem ==
    InBatch => \A i, j \in 1..Len(calls) :
                  i # j => (calls[i].out = calls[j].out
                              <=> /\ process_type = "remove_background"
                                  /\ splitext(files[i])[1] = splitext(files[j])[1])

\* C10 witness: a batch of remove_background wrote the outputs of two files
\* at the same path.
C10_Witness ==
    /\ InBatch
    /\ \E i, j \in 1..Len(calls) :
          /\ i # j
          /\ calls[i].out = calls[j].out
          /\ calls[i].wrote /\ calls[j].wrote

====
